---------------------------- MODULE Spec2Model ----------------------------
(***************************************************************************)
(* A model of the conversational database interface (chat.py), of the    *)
(* read-only query validator that its test suites carry                   *)
(* (test_validation_only.py, test_llm_prompt_injection.py,                *)
(* test_security.py) and of the configuration loader                      *)
(* (tools/config_loader.py).                                               *)
(*                                                                         *)
(* The module holds one specification per part of the program:            *)
(*   SpecV  the validator as the test suites call it                      *)
(*   Spec   ChatInterface.run and its handlers                            *)
(*   SpecH  save_chat_message and get_chat_history on table chat_history  *)
(*   SpecD  search_documents on table documents                           *)
(*   SpecG  the clean-up of the LLM's response in generate_sql_query      *)
(*   SpecC  ConfigLoader.get and ConfigLoader.require                     *)
(*   SpecE  embed_documents run by two processes on one documents table   *)
(*                                                                         *)
(* A Python str is modelled as a sequence of characters; a character is a *)
(* one-letter TLA+ string, except Kelvin, which stands for the single     *)
(* code point U+212A (KELVIN SIGN), and Backtick, which stands for U+0060  *)
(* (a character TLA+ string literals cannot hold).                         *)
(***************************************************************************)
EXTENDS Integers, Sequences, FiniteSets, TLC

VARIABLES
    \* ---- the validator, called as the test suites call it
    query,        \* the argument of the current call of validate_read_only_query
    result,       \* what that call did: returned True, or the Exception it raised
    base,         \* the argument of the earlier call this one is compared with
    base_result,  \* what the earlier call did
    rel,          \* how query was derived from base
    db_result,    \* what db.validate_read_only_query(query) did in test_security.py
    \* ---- ChatInterface (chat.py)
    pc,            \* where ChatInterface.run is: before initialize, at its prompt, inside a handler, or returned
    conn,          \* self.db.conn: "none" (None), "open" or "closed"
    dispatched,    \* the branch of run the current line took: "sql", "rag", "chat" or "none"
    mode,          \* the handler run has called for the current line, "none" if none
    user_input,    \* the argument of the running handler
    sql_query,     \* what generate_sql_query returned to handle_sql_mode
    confirm_input, \* what was typed at "Execute this query? (y/n): "
    executed,      \* the generated strings handle_sql_mode has passed to execute_query
    outcome,       \* how the handling of the last line ended
    error,         \* the exception text printed for the last line, <<>> if none
    answer,        \* the answer printed for the last line, <<>> if none
    relevant_docs, \* what search_documents returned to answer_with_rag
    chat_history,  \* the rows of table chat_history of this session, oldest first
    handled,       \* the number of input lines run has dispatched
    llm_calls,     \* calls of LLMClient.chat made for the current line
    exec_calls,    \* calls of execute_query with generated SQL made for the current line
    history_reads, \* calls of get_chat_history made for the current line
    txn,           \* the connection's transaction status: "none" without a connection, "idle", "open", "failed", "closed"
    db_reply,      \* the database's answer to the last statement of the current line
    messages,      \* the list handle_chat_mode passes to LLMClient.chat for the current line
    \* ---- DatabaseManager's chat history (chat.py)
    chat_history_table, \* the rows of table chat_history, of every session
    db_clock,           \* the database's clock
    saved,              \* the (role, content) of this session's save_chat_message calls, in call order
    history,            \* what the last get_chat_history call returned
    history_limit,      \* the limit of that call, 0 when no result is held
    \* ---- DatabaseManager's document search (chat.py)
    documents,          \* table documents: id -> embedding (NULL or a vector)
    query_embedding,    \* the embedding of the question of the last search_documents call
    top_k,              \* the top_k of that call, 0 before the first call
    search_results,     \* what that call returned
    \* ---- generate_sql_query's clean-up of the LLM's response (chat.py)
    llm_output,         \* what LLMClient.chat returned to generate_sql_query
    sanitized,          \* what generate_sql_query returns for it
    sanitize_pc,        \* "response" before the clean-up, "returned" after it
    \* ---- ConfigLoader (tools/config_loader.py)
    keyring_store,      \* the system keyring of service cgi_chat: name -> password or None
    environ,            \* os.environ: name -> value or None
    use_keyring,        \* self.use_keyring
    cache,              \* self._cache: key -> value, Absent for a key it does not hold
    config_call,        \* the last call made on the loader
    config_returned,    \* what that call returned, or the exception it raised
    \* ---- DatabaseManager.embed_documents, run by several processes (chat.py)
    embedding,          \* column embedding of table documents: id -> NULL or a vector
    embed_pc,           \* where each process is in embed_documents
    docs_to_embed,      \* each process's docs: the ids its SELECT returned and the loop has not reached
    embedding_writes    \* per row, the processes whose UPDATE has set its embedding, in commit order

varsV == <<query, result, base, base_result, rel, db_result>>

varsS == <<pc, conn, dispatched, mode, user_input, sql_query, confirm_input, executed,
           outcome, error, answer, relevant_docs, chat_history, handled,
           llm_calls, exec_calls, history_reads, txn, db_reply, messages>>

varsH == <<chat_history_table, db_clock, saved, history, history_limit>>

\* What an action of one part of the program leaves alone: the other parts.
varsD == <<documents, query_embedding, top_k, search_results>>

varsG == <<llm_output, sanitized, sanitize_pc>>

varsC == <<keyring_store, environ, use_keyring, cache, config_call, config_returned>>

varsE == <<embedding, embed_pc, docs_to_embed, embedding_writes>>

notV == <<varsS, varsH, varsD, varsG, varsC, varsE>>

notS == <<varsV, varsH, varsD, varsG, varsC, varsE>>

notH == <<varsV, varsS, varsD, varsG, varsC, varsE>>

notD == <<varsV, varsS, varsH, varsG, varsC, varsE>>

notG == <<varsV, varsS, varsH, varsD, varsC, varsE>>

notC == <<varsV, varsS, varsH, varsD, varsG, varsE>>

notE == <<varsV, varsS, varsH, varsD, varsG, varsC>>

vars == <<varsV, varsS, varsH, varsD, varsG, varsC, varsE>>

-----------------------------------------------------------------------------
(* Bounds of the model *)

\* The generated inputs are concatenations of at most MaxPieces pieces.
MaxPieces == 3

\* ChatInterface.run dispatches at most MaxInputs input lines.
MaxInputs == 2

\* Table chat_history holds at most MaxMessages rows.
MaxMessages == 4

\* An LLM response is a concatenation of at most MaxParts parts.
MaxParts == 4

\* Table documents holds MaxDocuments rows.
MaxDocuments == 4

\* The rows of table documents that two concurrent backfills work on.
MaxBacklog == 3

-----------------------------------------------------------------------------
(* Python str primitives *)

\* The characters of an ASCII string literal.
Chars(str) == [i \in 1..Len(str) |-> SubSeq(str, i, i)]

\* U+212A KELVIN SIGN: an uppercase letter whose lowercase is ASCII "k".
Kelvin == "U+212A"

\* U+0060 GRAVE ACCENT, the character of a Markdown code fence.
Backtick == "U+0060"

LowerLetters == Chars("abcdefghijklmnopqrstuvwxyz")

UpperLetters == Chars("ABCDEFGHIJKLMNOPQRSTUVWXYZ")

\* The characters str.split() and str.strip() treat as whitespace.
Whitespace == {" ", "\t", "\n"}

SeqMin(S) == CHOOSE i \in S : \A j \in S : i <= j

SeqMax(S) == CHOOSE i \in S : \A j \in S : i >= j

\* str.upper(), character by character. The Kelvin sign is uppercase already.
upper_char(c) ==
    IF \E i \in 1..26 : LowerLetters[i] = c
    THEN UpperLetters[CHOOSE i \in 1..26 : LowerLetters[i] = c]
    ELSE c

\* str.lower(), character by character. The Kelvin sign lowers to ASCII "k".
lower_char(c) ==
    IF c = Kelvin THEN "k"
    ELSE IF \E i \in 1..26 : UpperLetters[i] = c
    THEN LowerLetters[CHOOSE i \in 1..26 : UpperLetters[i] = c]
    ELSE c

str_upper(s) == [i \in 1..Len(s) |-> upper_char(s[i])]

str_lower(s) == [i \in 1..Len(s) |-> lower_char(s[i])]

\* s.strip(chars): the characters of cs removed from both ends.
str_strip(s, cs) ==
    LET keep == {i \in 1..Len(s) : s[i] \notin cs}
    IN  IF keep = {} THEN <<>> ELSE SubSeq(s, SeqMin(keep), SeqMax(keep))

\* s.split(): the maximal runs of non-whitespace characters, in order.
str_split(s) ==
    LET starts == SelectSeq([i \in 1..Len(s) |-> i],
                            LAMBDA i : /\ s[i] \notin Whitespace
                                       /\ (i = 1 \/ s[i - 1] \in Whitespace))
        last(i) == SeqMin({j \in i..Len(s) : j = Len(s) \/ s[j + 1] \in Whitespace})
    IN  [k \in 1..Len(starts) |-> SubSeq(s, starts[k], last(starts[k]))]

\* sep.join(parts)
RECURSIVE str_join(_, _)
str_join(sep, parts) ==
    IF parts = <<>> THEN <<>>
    ELSE IF Len(parts) = 1 THEN parts[1]
    ELSE parts[1] \o sep \o str_join(sep, Tail(parts))

\* k in s
str_in(k, s) ==
    \E i \in 1..(Len(s) - Len(k) + 1) : SubSeq(s, i, i + Len(k) - 1) = k

str_startswith(s, p) == Len(s) >= Len(p) /\ SubSeq(s, 1, Len(p)) = p

str_endswith(s, p) ==
    Len(s) >= Len(p) /\ SubSeq(s, Len(s) - Len(p) + 1, Len(s)) = p

\* s.count(c) for a one-character c
str_count(s, c) == Cardinality({i \in 1..Len(s) : s[i] = c})


-----------------------------------------------------------------------------
(* The read-only validator: test_validation_only.py, lines 7-40 (the copy  *)
(* in test_llm_prompt_injection.py, lines 61-87, is the same code).        *)

forbidden_keywords ==
    << Chars("INSERT"), Chars("UPDATE"), Chars("DELETE"), Chars("DROP"),
       Chars("CREATE"), Chars("ALTER"), Chars("TRUNCATE"), Chars("REPLACE"),
       Chars("MERGE"), Chars("GRANT"), Chars("REVOKE"), Chars("EXECUTE"),
       Chars("EXEC"), Chars("CALL"), Chars("DO") >>

\* What a call does: it returns True (kind "Allowed"), or raises Exception with
\* one of three messages; the first message names the keyword found.
Allowed == [kind |-> "Allowed", keyword |-> <<>>]

ForbiddenKeyword(k) == [kind |-> "ForbiddenKeyword", keyword |-> k]

NotReadOnlyPrefix == [kind |-> "NotReadOnlyPrefix", keyword |-> <<>>]

MultipleStatements == [kind |-> "MultipleStatements", keyword |-> <<>>]

\* No call has been made yet.
NoResult == [kind |-> "none", keyword |-> <<>>]

\* The three checks in the order of lines 26-38.
checks_in_order(hits, prefix_ok, semicolons_bad) ==
    IF hits # {}
    THEN ForbiddenKeyword(forbidden_keywords[SeqMin(hits)])
    ELSE IF ~ prefix_ok THEN NotReadOnlyPrefix
    ELSE IF semicolons_bad THEN MultipleStatements
    ELSE Allowed

\* Mutant: clean_query without .upper().
clean_query_no_upper(q) ==
    str_strip(str_strip(str_join(<<" ">>, str_split(q)), Whitespace), {";", " "})

\* clean_query as lines 13-17 compute it.
clean_query(q) ==
    str_strip(str_strip(str_upper(str_join(<<" ">>, str_split(q))), Whitespace),
              {";", " "})

\* Mutant: only the count is tested, an inline single semicolon passes.
semicolon_violation_count_only(q) == str_count(q, ";") > 1

\* Mutant: query.endswith(';') without the strip().
semicolon_violation_unstripped(q) ==
    LET semicolon_count == str_count(q, ";")
    IN  \/ semicolon_count > 1
        \/ semicolon_count = 1 /\ ~ str_endswith(q, <<";">>)

\* Mutant: the semicolons are counted in clean_query, whose ends are stripped
\* of them, instead of in the raw query.
semicolon_violation_on_clean(q) ==
    LET semicolon_count == str_count(clean_query(q), ";")
    IN  \/ semicolon_count > 1
        \/ semicolon_count = 1 /\ ~ str_endswith(str_strip(q, Whitespace), <<";">>)

\* Lines 36-37: the semicolon test on the raw query.
semicolon_violation(q) ==
    LET semicolon_count == str_count(q, ";")
    IN  \/ semicolon_count > 1
        \/ /\ semicolon_count = 1
           /\ ~ str_endswith(str_strip(q, Whitespace), <<";">>)

SelectPrefix == Chars("SELECT")

WithPrefix == Chars("WITH")

KeywordHits(clean) ==
    {i \in 1..Len(forbidden_keywords) : str_in(forbidden_keywords[i], clean)}

PrefixOk(clean) ==
    str_startswith(clean, SelectPrefix) \/ str_startswith(clean, WithPrefix)

\* Mutant: a keyword counts only as a whole word (keyword in clean_query.split()).
validate_whole_word(q) ==
    LET words == str_split(clean_query(q))
        hits  == {i \in 1..Len(forbidden_keywords) :
                    \E j \in 1..Len(words) : words[j] = forbidden_keywords[i]}
    IN  checks_in_order(hits, PrefixOk(clean_query(q)), semicolon_violation(q))

\* Mutant: 'SELECT' in clean_query instead of clean_query.startswith('SELECT').
validate_prefix_anywhere(q) ==
    LET clean == clean_query(q)
    IN  checks_in_order(KeywordHits(clean),
                        str_in(SelectPrefix, clean) \/ str_in(WithPrefix, clean),
                        semicolon_violation(q))

\* Mutant: WITH is not accepted as a prefix.
validate_select_only(q) ==
    LET clean == clean_query(q)
    IN  checks_in_order(KeywordHits(clean), str_startswith(clean, SelectPrefix),
                        semicolon_violation(q))

\* Mutant: the prefix is read from clean_query.split()[0], which raises
\* IndexError when clean_query is empty.
validate_first_word(q) ==
    LET clean == clean_query(q)
        words == str_split(clean)
    IN  IF KeywordHits(clean) = {} /\ words = <<>>
        THEN [kind |-> "IndexError", keyword |-> <<>>]
        ELSE checks_in_order(KeywordHits(clean), PrefixOk(clean), semicolon_violation(q))

\* Mutant: the prefix check runs before the keyword scan.
validate_prefix_first(q) ==
    LET clean == clean_query(q)
    IN  IF ~ PrefixOk(clean) THEN NotReadOnlyPrefix
        ELSE checks_in_order(KeywordHits(clean), TRUE, semicolon_violation(q))

\* Mutant: the scan keeps going and reports the last keyword of the list that
\* occurs, not the first.
validate_last_keyword(q) ==
    LET clean == clean_query(q)
        hits  == KeywordHits(clean)
    IN  IF hits # {}
        THEN ForbiddenKeyword(forbidden_keywords[SeqMax(hits)])
        ELSE checks_in_order(hits, PrefixOk(clean), semicolon_violation(q))

validate_read_only_query(q) ==
    LET clean == clean_query(q)
        hits  == {i \in 1..Len(forbidden_keywords) : str_in(forbidden_keywords[i], clean)}
    IN  IF hits # {}
        THEN ForbiddenKeyword(forbidden_keywords[SeqMin(hits)])
        ELSE IF ~ (str_startswith(clean, SelectPrefix) \/ str_startswith(clean, WithPrefix))
        THEN NotReadOnlyPrefix
        ELSE IF semicolon_violation(q)
        THEN MultipleStatements
        ELSE Allowed

-----------------------------------------------------------------------------
(* The strings the validator is called on *)

\* The queries of run_tests (test_validation_only.py, lines 52-84).
RunTestsQueries ==
    { Chars("SELECT * FROM users"),
      Chars("SELECT id, name FROM products WHERE price > 100"),
      Chars("SELECT COUNT(*) FROM orders"),
      Chars("WITH cte AS (SELECT * FROM users) SELECT * FROM cte"),
      Chars("SELECT * FROM users;"),
      Chars("  SELECT  *  FROM  users  "),
      Chars("INSERT INTO users VALUES (1, 'test')"),
      Chars("UPDATE users SET name = 'hacked'"),
      Chars("DELETE FROM users WHERE id = 1"),
      Chars("DROP TABLE users"),
      Chars("CREATE TABLE hackers (id INT)"),
      Chars("ALTER TABLE users ADD COLUMN evil TEXT"),
      Chars("TRUNCATE TABLE users"),
      Chars("SELECT * FROM users; DROP TABLE users;"),
      Chars("SELECT * FROM users; DELETE FROM users WHERE 1=1;"),
      Chars("'; DROP TABLE users; --"),
      Chars("EXECUTE sp_malicious"),
      Chars("CALL malicious_function()"),
      Chars("GRANT ALL ON users TO hacker"),
      Chars("REVOKE ALL ON users FROM admin"),
      Chars("select * from users"),
      Chars("SeLeCt * FrOm users") }

\* The llm_might_generate strings of test_llm_prompt_injection.py, lines 9-58.
InjectionQueries ==
    { Chars("DELETE FROM users;"),
      Chars("DROP TABLE users;"),
      Chars("UPDATE customers SET email = 'new@example.com' WHERE id = 1;"),
      Chars("INSERT INTO products (name, price) VALUES ('Test', 9.99);"),
      Chars("DELETE FROM products WHERE id NOT IN (SELECT MIN(id) FROM products GROUP BY name);"),
      Chars("ALTER TABLE users ADD COLUMN is_admin BOOLEAN DEFAULT FALSE;"),
      Chars("TRUNCATE TABLE logs;"),
      Chars("SELECT * FROM users; DROP TABLE users;") }

\* The pieces the other inputs are built from: the two accepted prefixes, a
\* forbidden keyword, a keyword-free word, whitespace, the semicolon, and a
\* word spelled with the Kelvin sign.
Pieces ==
    { Chars("SELECT"), Chars("with"), Chars("do"),
      Chars("x"), Chars(" "), Chars("\t\n"), Chars(";"),
      Chars("revo") \o <<Kelvin>> \o Chars("e") }

RECURSIVE Concats(_)
Concats(n) ==
    IF n = 0 THEN {<<>>}
    ELSE LET shorter == Concats(n - 1)
         IN  shorter \cup {s \o p : s \in shorter, p \in Pieces}

Inputs == Concats(MaxPieces) \cup RunTestsQueries \cup InjectionQueries

-----------------------------------------------------------------------------
(* The validator's callers: one call, then a second call on a string       *)
(* derived from the first (a case variant, a whitespace variant, the       *)
(* string with semicolons appended, or the same string again).             *)

\* The validator's harness before its first call.
IdleV ==
    /\ query = <<>>
    /\ result = NoResult
    /\ base = <<>>
    /\ base_result = NoResult
    /\ rel = "none"
    /\ db_result = NoResult

\* A ChatInterface on which run has not been called: no connection, nothing
\* dispatched.
IdleS ==
    /\ pc = "start"
    /\ conn = "none"
    /\ dispatched = "none"
    /\ mode = "none"
    /\ user_input = <<>>
    /\ sql_query = <<>>
    /\ confirm_input = <<>>
    /\ executed = <<>>
    /\ outcome = "none"
    /\ error = <<>>
    /\ answer = <<>>
    /\ relevant_docs = <<>>
    /\ chat_history = <<>>
    /\ handled = 0
    /\ llm_calls = 0
    /\ exec_calls = 0
    /\ history_reads = 0
    /\ txn = "none"
    /\ db_reply = "none"
    /\ messages = <<>>

\* Table chat_history before the first message.
IdleH ==
    /\ chat_history_table = {}
    /\ db_clock = 1
    /\ saved = <<>>
    /\ history = <<>>
    /\ history_limit = 0

\* The embedding of a row that has none.
NULL == <<>>

\* Table documents without embeddings, before the first search.
IdleD ==
    /\ documents = [id \in 1..MaxDocuments |-> NULL]
    /\ query_embedding = NULL
    /\ top_k = 0
    /\ search_results = <<>>

\* Python's None among the configuration values.
None == "<None>"

\* The _cache entry of a key the dictionary does not hold.
Absent == "<absent>"

\* No call has been made on the loader.
NoCall == [op |-> "none", key |-> <<>>, default |-> None, env_var |-> <<>>]

\* The keys the callers pass to get and require.
Keys == { Chars("postgres_user"), Chars("POSTGRES_USER") }

\* The names under which the keyring is read: key.lower().
KeyringNames == { str_lower(k) : k \in Keys }

\* The env_var arguments of the callers; <<>> stands for None.
EnvVars == { <<>>, Chars("PGUSER") }

\* The names under which the environment is read: env_var or key.upper().
EnvNames == { str_upper(k) : k \in Keys } \cup (EnvVars \ {<<>>})

\* A ConfigLoader nobody has configured or called: empty keyring, empty
\* environment, ConfigLoader() with an empty _cache.
IdleC ==
    /\ keyring_store = [n \in KeyringNames |-> None]
    /\ environ = [n \in EnvNames |-> None]
    /\ use_keyring = TRUE
    /\ cache = [k \in Keys |-> Absent]
    /\ config_call = NoCall
    /\ config_returned = None

\* The processes that run embed_documents on the same database, each on its
\* own connection.
Workers == {"a", "b"}

\* Table documents without embeddings, no process inside embed_documents.
IdleE ==
    /\ embedding = [id \in 1..MaxBacklog |-> NULL]
    /\ embed_pc = [w \in Workers |-> "start"]
    /\ docs_to_embed = [w \in Workers |-> {}]
    /\ embedding_writes = [id \in 1..MaxBacklog |-> <<>>]

\* generate_sql_query before the LLM has answered.
IdleG ==
    /\ llm_output = <<>>
    /\ sanitized = <<>>
    /\ sanitize_pc = "response"

InitV ==
    /\ query \in Inputs
    /\ result = NoResult
    /\ base = <<>>
    /\ base_result = NoResult
    /\ rel = "none"
    /\ db_result = NoResult
    /\ IdleS
    /\ IdleH
    /\ IdleD
    /\ IdleG
    /\ IdleC
    /\ IdleE

\* try: validate_read_only_query(query) ... except Exception as e: ...
\* (run_tests, lines 89-98)
Validate ==
    /\ result = NoResult
    /\ result' = validate_read_only_query(query)
    /\ UNCHANGED <<query, base, base_result, rel, db_result>>
    /\ UNCHANGED notV

\* The same string is validated again.
Revalidate ==
    /\ result # NoResult
    /\ rel = "none"
    /\ base' = query
    /\ base_result' = result
    /\ rel' = "same"
    /\ result' = NoResult
    /\ UNCHANGED <<query, db_result>>
    /\ UNCHANGED notV

\* A mixed-case spelling: upper case at the odd positions, lower case at the even.
mixed_case(s) ==
    [i \in 1..Len(s) |-> IF i % 2 = 1 THEN upper_char(s[i]) ELSE lower_char(s[i])]

\* s.swapcase()
swap_case(s) ==
    [i \in 1..Len(s) |-> IF upper_char(s[i]) = s[i] THEN lower_char(s[i]) ELSE upper_char(s[i])]

CaseVariants(s) == {str_upper(s), str_lower(s), mixed_case(s), swap_case(s)}

\* The same query in another case is validated (run_tests, lines 81-84).
Recase ==
    /\ result # NoResult
    /\ rel = "none"
    /\ \E v \in CaseVariants(query) : query' = v
    /\ base' = query
    /\ base_result' = result
    /\ rel' = "case"
    /\ db_result' = NoResult
    /\ result' = NoResult
    /\ UNCHANGED notV

\* The maximal whitespace runs of s that have a token on both sides, as <<first, last>>.
InnerWhitespaceRuns(s) ==
    { r \in (2..Len(s) - 1) \X (2..Len(s) - 1) :
        /\ r[1] <= r[2]
        /\ \A i \in r[1]..r[2] : s[i] \in Whitespace
        /\ s[r[1] - 1] \notin Whitespace
        /\ s[r[2] + 1] \notin Whitespace }

WhitespaceVariants(s) ==
    {w \o s : w \in {<<" ">>, <<"\n", "\t">>}}
    \cup {s \o w : w \in {<<" ">>, <<"\t", "\n">>}}
    \cup { SubSeq(s, 1, r[1] - 1) \o w \o SubSeq(s, r[2] + 1, Len(s)) :
             r \in InnerWhitespaceRuns(s),
             w \in {<<" ">>, <<"\n">>, <<"\t", " ", " ">>} }

\* The same query with other whitespace is validated (run_tests, line 59).
Respace ==
    /\ result # NoResult
    /\ rel = "none"
    /\ \E v \in WhitespaceVariants(query) : query' = v
    /\ base' = query
    /\ base_result' = result
    /\ rel' = "ws"
    /\ db_result' = NoResult
    /\ result' = NoResult
    /\ UNCHANGED notV

\* The query followed by one semicolon and optional whitespace is validated
\* (run_tests, line 58).
AppendSemicolon ==
    /\ result # NoResult
    /\ rel = "none"
    /\ \E w \in {<<>>, <<" ">>, <<"\n">>, <<"\t", " ">>} : query' = query \o <<";">> \o w
    /\ base' = query
    /\ base_result' = result
    /\ rel' = "semi1"
    /\ db_result' = NoResult
    /\ result' = NoResult
    /\ UNCHANGED notV

\* The query followed by two or more semicolons is validated.
AppendSemicolons ==
    /\ result # NoResult
    /\ rel = "none"
    /\ \E w \in {<<";", ";">>, <<";", " ", ";">>, <<";", ";", ";">>, <<";", ";", "\n">>} :
          query' = query \o w
    /\ base' = query
    /\ base_result' = result
    /\ rel' = "semi2"
    /\ db_result' = NoResult
    /\ result' = NoResult
    /\ UNCHANGED notV

\* The test_cases of test_security.py, lines 20-47.
SecurityTestQueries ==
    RunTestsQueries \ { Chars("select * from users"), Chars("SeLeCt * FrOm users") }

\* The attribute lookup fails before any call is made.
AttributeError == [kind |-> "AttributeError", keyword |-> <<>>]

\* db.validate_read_only_query(query) with db = DatabaseManager() as chat.py
\* defines the class (lines 45-177): the class has the methods __init__,
\* connect, execute_query, get_schema_info, save_chat_message,
\* get_chat_history, init_embedding_model, search_documents, embed_documents
\* and close, and no attribute validate_read_only_query.
DatabaseManager_validate_read_only_query(q) == AttributeError

\* test_security.py, lines 53-61: the call inside try/except Exception.
TestSecurity ==
    /\ query \in SecurityTestQueries
    /\ rel = "none"
    /\ db_result = NoResult
    /\ db_result' = DatabaseManager_validate_read_only_query(query)
    /\ UNCHANGED <<query, result, base, base_result, rel>>
    /\ UNCHANGED notV

NextV ==
    \/ TestSecurity
    \/ Validate
    \/ Revalidate
    \/ Recase
    \/ Respace
    \/ AppendSemicolon
    \/ AppendSemicolons

SpecV == InitV /\ [][NextV]_vars

-----------------------------------------------------------------------------
(* ChatInterface (chat.py): the SQL path *)

\* s.lstrip(): leading whitespace removed.
str_lstrip(s) ==
    LET keep == {i \in 1..Len(s) : s[i] \notin Whitespace}
    IN  IF keep = {} THEN <<>> ELSE SubSeq(s, SeqMin(keep), Len(s))

\* s.split(c) for a one-character separator c: the parts between its occurrences.
str_split_on(s, c) ==
    LET cuts    == SelectSeq([i \in 1..Len(s) |-> i], LAMBDA i : s[i] = c)
        from(k) == IF k = 1 THEN 1 ELSE cuts[k - 1] + 1
        to(k)   == IF k = Len(cuts) + 1 THEN Len(s) ELSE cuts[k] - 1
    IN  [k \in 1..Len(cuts) + 1 |-> SubSeq(s, from(k), to(k))]

\* The three characters sql_query.startswith tests for at line 267.
Fence == <<Backtick, Backtick, Backtick>>

\* cleanup_response with only the first line of a fenced response removed.
cleanup_response_first_line_only(response) ==
    LET stripped == str_strip(response, Whitespace)
    IN  IF str_startswith(stripped, Fence)
        THEN LET lines == str_split_on(stripped, "\n")
             IN  str_strip(str_join(<<"\n">>, SubSeq(lines, 2, Len(lines))), Whitespace)
        ELSE stripped

\* generate_sql_query, lines 264-271: the LLM's response cleaned up.
cleanup_response(response) ==
    LET stripped == str_strip(response, Whitespace)
    IN  IF str_startswith(stripped, Fence)
        THEN LET lines == str_split_on(stripped, "\n")
             IN  str_strip(str_join(<<"\n">>, SubSeq(lines, 2, Len(lines) - 1)), Whitespace)
        ELSE stripped

\* run, lines 445-447: parts = user_input.split(maxsplit=1)
command_of(line) == str_lower(str_split(line)[1])

content_of(line) == str_lstrip(SubSeq(line, Len(str_split(line)[1]) + 1, Len(line)))

\* run, lines 488-489
sql_keywords ==
    << Chars("show"), Chars("list"), Chars("how many"), Chars("count"),
       Chars("total"), Chars("find"), Chars("get"), Chars("customers"),
       Chars("products"), Chars("orders") >>

looks_like_sql(line) ==
    \E i \in 1..Len(sql_keywords) : str_in(sql_keywords[i], str_lower(line))

\* The lines typed at run's prompt.
Lines ==
    { Chars("/sql list users"), Chars("/SQL   remove every user "),
      Chars("/sql"), Chars(" show orders"),
      Chars("/ask What is pgvector?"), Chars("/ask"),
      Chars("/chat hello"), Chars("Thank you!"), Chars("/quit") }

\* run, lines 438-448, for each of the lines: the stripped line, its command
\* and its content.
UserInputs ==
    { [stripped |-> str_strip(line, Whitespace),
       command  |-> IF str_strip(line, Whitespace) = <<>> THEN <<>>
                    ELSE command_of(str_strip(line, Whitespace)),
       content  |-> IF str_strip(line, Whitespace) = <<>> THEN <<>>
                    ELSE content_of(str_strip(line, Whitespace))] : line \in Lines }

\* What LLMClient.chat returns to generate_sql_query.
LlmResponses ==
    { Chars("SELECT * FROM users"),
      Fence \o Chars("sql\nSELECT * FROM orders\n") \o Fence,
      Chars("DROP TABLE users"),
      Fence \o Chars("\nDELETE FROM users;\n") \o Fence }

\* What the user types at "Execute this query? (y/n): ".
ConfirmAnswers == { Chars("y"), Chars("Y"), Chars("n"), Chars(""), Chars("yes"), Chars(" y") }

\* What PostgreSQL can answer to a statement that fails (str(e) at line 80).
DbErrors == {"relation does not exist"}

\* How the database can answer a statement passed to execute_query (lines
\* 68-80): rows, no rows, a statement without a result set, or an error.
DbResults == {"rows", "empty", "affected"} \cup DbErrors

\* The answers to the INSERT of save_chat_message (lines 111-115).
InsertResults == {"affected"} \cup DbErrors

\* The answers to the SELECT of get_schema_info (lines 84-92), which always
\* finds the columns of the application's own tables.
SchemaResults == {"rows"} \cup DbErrors

\* The answers to the SELECT of get_chat_history (lines 119-126) inside a
\* handler: run has saved the user's line before, so there is a row.
HistoryResults == {"rows"} \cup DbErrors

\* The answers to the SELECT of search_documents (lines 144-151).
SearchResults == {"rows", "empty"} \cup DbErrors

\* How the completion request of LLMClient.chat can fail (lines 206-215).
LlmErrors == {"connection refused"}

\* What LLMClient.chat returns to handle_chat_mode and to answer_with_rag.
LlmAnswers == { Chars("pgvector stores embeddings.") }

\* What search_documents returns when the SELECT finds rows.
DocumentHits == { <<"doc 1">>, <<"doc 1", "doc 2", "doc 3">> }

\* execute_query, line 80
QueryExecutionFailed(e) == Chars("Query execution failed: ") \o Chars(e)

\* LLMClient.chat, line 215
LlmRequestFailed(e) == Chars("LLM request failed: ") \o Chars(e)

\* LLMClient.chat (lines 204-215): the text of the completion, or the wrapped
\* exception of the request.
LLMClient_chat(completions) ==
    {[raised |-> FALSE, text |-> t] : t \in completions}
        \cup {[raised |-> TRUE, text |-> LlmRequestFailed(e)] : e \in LlmErrors}

\* answer_with_rag, line 279
NoRelevantInformation ==
    Chars("I couldn't find any relevant information in the knowledge base.")

\* execute_query with the rollback of line 79 left out.
execute_query_no_rollback(db) ==
    IF db \in DbErrors
    THEN [raised |-> TRUE, txn |-> "failed", error |-> QueryExecutionFailed(db)]
    ELSE IF db = "affected"
         THEN [raised |-> FALSE, txn |-> "idle", error |-> <<>>]
         ELSE [raised |-> FALSE, txn |-> "open", error |-> <<>>]

\* DatabaseManager.execute_query (lines 68-80) on a connection without
\* autocommit. cur.execute opens a transaction; a statement with a result set
\* returns its rows and leaves the transaction open; one without is
\* committed; a failing statement aborts the transaction, which line 79 rolls
\* back before line 80 raises the wrapped message.
execute_query(db) ==
    IF db \in DbErrors
    THEN [raised |-> TRUE, txn |-> "idle", error |-> QueryExecutionFailed(db)]
    ELSE IF db = "affected"
         THEN [raised |-> FALSE, txn |-> "idle", error |-> <<>>]
         ELSE [raised |-> FALSE, txn |-> "open", error |-> <<>>]

\* DatabaseManager.save_chat_message(role, content), lines 109-115: the row as
\* the INSERT adds it to this session's rows, or the exception of execute_query.
save_chat_message(db, role, content) ==
    LET r == execute_query(db)
    IN  [raised |-> r.raised, txn |-> r.txn, error |-> r.error,
         rows |-> IF r.raised THEN chat_history
                  ELSE Append(chat_history, [role |-> role, content |-> content])]

\* The locals of the handlers, fresh for every input line.
NewLine ==
    /\ sql_query' = <<>>
    /\ confirm_input' = <<>>
    /\ llm_calls' = 0
    /\ exec_calls' = 0
    /\ history_reads' = 0
    /\ relevant_docs' = <<>>
    /\ answer' = <<>>
    /\ messages' = <<>>

\* run, lines 456-457, 462-463, 468-469 and 485-492: the user's message is
\* saved and then the handler is called with its argument. An exception of
\* save_chat_message leaves the try block at line 436 for the handler at
\* line 502, which prints it; the handler of the line is not called.
Dispatch(kind, handler_pc, message, argument) ==
    \E db \in InsertResults :
        LET s == save_chat_message(db, "user", message)
        IN  /\ dispatched' = kind
            /\ db_reply' = db
            /\ txn' = s.txn
            /\ chat_history' = s.rows
            /\ error' = s.error
            /\ IF s.raised
               THEN /\ pc' = "prompt"
                    /\ mode' = "none"
                    /\ user_input' = <<>>
                    /\ outcome' = "error"
               ELSE /\ pc' = handler_pc
                    /\ mode' = kind
                    /\ user_input' = argument
                    /\ outcome' = "none"

\* run, lines 458-459, 464-465 and 470-471: a command without content.
Usage ==
    /\ outcome' = "usage"
    /\ dispatched' = "none"
    /\ mode' = "none"
    /\ user_input' = <<>>
    /\ error' = <<>>
    /\ db_reply' = "none"
    /\ UNCHANGED <<pc, txn, chat_history>>

\* run, lines 438-471: a line that starts with the command cmd. /sql and /ask
\* save the whole line, /chat saves its content.
CommandLine(cmd, kind, handler_pc, whole) ==
    /\ \E line \in UserInputs :
          /\ line.stripped # <<>>
          /\ str_startswith(line.stripped, <<"/">>)
          /\ line.command = cmd
          /\ IF line.content # <<>>
             THEN Dispatch(kind, handler_pc,
                           IF whole THEN line.stripped ELSE line.content,
                           line.content)
             ELSE Usage
    /\ NewLine
    /\ handled' = handled + 1
    /\ UNCHANGED executed
    /\ UNCHANGED conn
    /\ UNCHANGED notS

\* run, lines 454-459
SqlCommand ==
    /\ pc = "prompt"
    /\ handled < MaxInputs
    /\ CommandLine(Chars("/sql"), "sql", "generate", TRUE)

\* run, lines 460-465
AskCommand ==
    /\ pc = "prompt"
    /\ handled < MaxInputs
    /\ CommandLine(Chars("/ask"), "rag", "rag", TRUE)

\* run, lines 466-471
ChatCommand ==
    /\ pc = "prompt"
    /\ handled < MaxInputs
    /\ CommandLine(Chars("/chat"), "chat", "chat", FALSE)

\* run, lines 483-492: a line without a command; the keyword heuristic picks
\* handle_sql_mode or handle_chat_mode.
AutoDetect(sql) ==
    /\ \E line \in UserInputs :
          /\ line.stripped # <<>>
          /\ ~ str_startswith(line.stripped, <<"/">>)
          /\ looks_like_sql(line.stripped) = sql
          /\ IF sql
             THEN Dispatch("sql", "generate", line.stripped, line.stripped)
             ELSE Dispatch("chat", "chat", line.stripped, line.stripped)
    /\ NewLine
    /\ handled' = handled + 1
    /\ UNCHANGED executed
    /\ UNCHANGED conn
    /\ UNCHANGED notS

AutoDetectSql ==
    /\ pc = "prompt"
    /\ handled < MaxInputs
    /\ AutoDetect(TRUE)

AutoDetectChat ==
    /\ pc = "prompt"
    /\ handled < MaxInputs
    /\ AutoDetect(FALSE)

\* DatabaseManager.close, lines 174-177: if self.conn: self.conn.close().
close(c) == IF c = "none" THEN "none" ELSE "closed"

\* run, lines 505-506, after a break: self.db.close() and run returns.
Leave ==
    /\ pc' = "returned"
    /\ conn' = close(conn)
    /\ txn' = "closed"
    /\ outcome' = "goodbye"
    /\ dispatched' = "none"
    /\ mode' = "none"
    /\ user_input' = <<>>
    /\ error' = <<>>
    /\ db_reply' = "none"

\* The outcomes of psycopg2.connect in DatabaseManager.connect.
ConnectResults == {"connected", "refused"}

\* The outcomes of the completion request in LLMClient.test_connection.
TestConnectionResults == {"completed", "failed"}

\* The answers to the SELECT of embed_documents: no row without embedding,
\* some rows, or a failure.
EmbedResults == {"empty", "rows"} \cup DbErrors

\* DatabaseManager.connect, lines 52-66: self.conn is assigned only when
\* psycopg2.connect returns.
connect(db) == IF db = "connected" THEN "open" ELSE "none"

\* run, lines 429-431, with ChatInterface.initialize, lines 226-242: connect,
\* test_connection, embed_documents. When initialize returns False run
\* prints "Failed to initialize. Exiting." and returns. embed_documents
\* leaves its SELECT's transaction open when there is no row (line 160) and
\* commits after its UPDATEs (line 172); its exception leaves initialize and
\* run.
Initialize ==
    /\ pc = "start"
    /\ \E db \in ConnectResults, llm \in TestConnectionResults, embed \in EmbedResults :
          /\ conn' = connect(db)
          /\ IF connect(db) = "none"
             THEN /\ pc' = "returned"
                  /\ outcome' = "failed to initialize"
                  /\ UNCHANGED <<txn, error>>
             ELSE IF llm = "failed"
             THEN /\ pc' = "returned"
                  /\ outcome' = "failed to initialize"
                  /\ txn' = "idle"
                  /\ UNCHANGED error
             ELSE LET r == execute_query(embed)
                  IN  /\ pc' = IF r.raised THEN "raised" ELSE "prompt"
                      /\ outcome' = IF r.raised THEN "error" ELSE "none"
                      /\ error' = r.error
                      /\ txn' = IF embed = "rows" THEN "idle" ELSE r.txn
    /\ UNCHANGED <<dispatched, mode, user_input, sql_query, confirm_input, executed,
                   answer, relevant_docs, chat_history, handled, llm_calls,
                   exec_calls, history_reads, db_reply, messages>>
    /\ UNCHANGED notS

\* run, lines 449-451 and 505-506: /quit or /exit leaves the loop and the
\* connection is closed.
Quit ==
    /\ pc = "prompt"
    /\ \E line \in UserInputs :
          /\ line.stripped # <<>>
          /\ str_startswith(line.stripped, <<"/">>)
          /\ line.command \in {Chars("/quit"), Chars("/exit")}
    /\ Leave
    /\ NewLine
    /\ UNCHANGED <<executed, chat_history, handled>>
    /\ UNCHANGED notS

\* run, lines 438 and 496-506: Ctrl-C or the end of input at the prompt
\* raises KeyboardInterrupt or EOFError; either handler leaves the loop and
\* the connection is closed.
Interrupt ==
    /\ pc = "prompt"
    /\ Leave
    /\ NewLine
    /\ UNCHANGED <<executed, chat_history, handled>>
    /\ UNCHANGED notS

Init ==
    /\ IdleS
    /\ IdleV
    /\ IdleH
    /\ IdleD
    /\ IdleG
    /\ IdleC
    /\ IdleE

\* handle_sql_mode, lines 318-322 and 355-356: generate_sql_query reads the
\* schema and makes its one call of LLMClient.chat; either can raise, which
\* ends handle_sql_mode at its except clause.
GenerateSql ==
    /\ pc = "generate"
    /\ \E schema \in SchemaResults, llm \in LLMClient_chat(LlmResponses) :
          LET s == execute_query(schema)
          IN  /\ db_reply' = schema
              /\ txn' = s.txn
              /\ IF s.raised
                 THEN /\ pc' = "prompt"
                      /\ outcome' = "error"
                      /\ error' = s.error
                      /\ UNCHANGED <<sql_query, llm_calls>>
                 ELSE /\ llm_calls' = llm_calls + 1
                      /\ IF llm.raised
                         THEN /\ pc' = "prompt"
                              /\ outcome' = "error"
                              /\ error' = llm.text
                              /\ UNCHANGED sql_query
                         ELSE /\ sql_query' = cleanup_response(llm.text)
                              /\ pc' = "confirm"
                              /\ UNCHANGED <<outcome, error>>
    /\ UNCHANGED <<messages, dispatched, mode, user_input, confirm_input, executed,
                   chat_history, handled, exec_calls, history_reads,
                   relevant_docs, answer>>
    /\ UNCHANGED conn
    /\ UNCHANGED notS

\* The test of line 327 on what was typed, after surrounding whitespace is
\* removed.
user_confirmed_stripped(typed) == str_lower(str_strip(typed, Whitespace)) = Chars("y")

\* handle_sql_mode, lines 325-327: confirm = prompt(...).lower(); confirm == 'y'
user_confirmed(typed) == str_lower(typed) = Chars("y")

\* handle_sql_mode, lines 324-356: the confirmation, and on 'y' the execution
\* of sql_query as generate_sql_query returned it.
ConfirmAndExecute ==
    /\ pc = "confirm"
    /\ \E typed \in ConfirmAnswers, db \in DbResults :
          /\ confirm_input' = typed
          /\ IF user_confirmed(typed)
             THEN LET r == execute_query(db)
                  IN  /\ executed' = Append(executed, sql_query)
                      /\ exec_calls' = exec_calls + 1
                      /\ db_reply' = db
                      /\ txn' = r.txn
                      /\ error' = r.error
                      /\ outcome' = IF r.raised THEN "error"
                                    ELSE IF db = "empty" THEN "no_results"
                                    ELSE "results"
             ELSE /\ outcome' = "cancelled"
                  /\ UNCHANGED <<executed, exec_calls, db_reply, txn, error>>
    /\ pc' = "prompt"
    /\ UNCHANGED <<messages, dispatched, mode, user_input, sql_query, chat_history, handled,
                   llm_calls, history_reads, relevant_docs, answer>>
    /\ UNCHANGED conn
    /\ UNCHANGED notS

\* answer_with_rag, line 276: search_documents(user_question, top_k=3); its
\* exception ends handle_rag_mode at line 366.
SearchDocuments ==
    /\ pc = "rag"
    /\ \E db \in SearchResults, docs \in DocumentHits :
          LET r == execute_query(db)
          IN  /\ db_reply' = db
              /\ txn' = r.txn
              /\ error' = r.error
              /\ IF r.raised
                 THEN /\ pc' = "prompt"
                      /\ outcome' = "error"
                      /\ UNCHANGED relevant_docs
                 ELSE /\ pc' = "rag_docs"
                      /\ relevant_docs' = IF db = "rows" THEN docs ELSE <<>>
                      /\ UNCHANGED outcome
    /\ UNCHANGED <<messages, dispatched, mode, user_input, sql_query, confirm_input, executed,
                   chat_history, handled, llm_calls, exec_calls, history_reads,
                   answer>>
    /\ UNCHANGED conn
    /\ UNCHANGED notS

\* answer_with_rag with the history read moved before the test of line 278.
answer_with_rag_history_first(docs, hist, llm) ==
    LET h == execute_query(hist)
    IN  IF h.raised
        THEN [raised |-> TRUE, answer |-> <<>>, error |-> h.error,
              history_reads |-> 1, llm_calls |-> 0, txn |-> h.txn, db_reply |-> hist]
        ELSE IF docs = <<>>
        THEN [raised |-> FALSE, answer |-> NoRelevantInformation, error |-> <<>>,
              history_reads |-> 1, llm_calls |-> 0, txn |-> h.txn, db_reply |-> hist]
        ELSE IF llm.raised
        THEN [raised |-> TRUE, answer |-> <<>>, error |-> llm.text,
              history_reads |-> 1, llm_calls |-> 1, txn |-> h.txn, db_reply |-> hist]
        ELSE [raised |-> FALSE, answer |-> llm.text, error |-> <<>>,
              history_reads |-> 1, llm_calls |-> 1, txn |-> h.txn, db_reply |-> hist]

\* answer_with_rag from line 278 on, given what search_documents returned:
\* the fixed answer when there are no documents, otherwise the history read
\* (get_chat_history(limit=5)) and the one call of LLMClient.chat.
answer_with_rag(docs, hist, llm) ==
    IF docs = <<>>
    THEN [raised |-> FALSE, answer |-> NoRelevantInformation, error |-> <<>>,
          history_reads |-> 0, llm_calls |-> 0, txn |-> txn, db_reply |-> db_reply]
    ELSE LET h == execute_query(hist)
         IN  IF h.raised
             THEN [raised |-> TRUE, answer |-> <<>>, error |-> h.error,
                   history_reads |-> 1, llm_calls |-> 0, txn |-> h.txn, db_reply |-> hist]
             ELSE IF llm.raised
             THEN [raised |-> TRUE, answer |-> <<>>, error |-> llm.text,
                   history_reads |-> 1, llm_calls |-> 1, txn |-> h.txn, db_reply |-> hist]
             ELSE [raised |-> FALSE, answer |-> llm.text, error |-> <<>>,
                   history_reads |-> 1, llm_calls |-> 1, txn |-> h.txn, db_reply |-> hist]

\* handle_rag_mode, lines 362-367, after search_documents has returned.
AnswerWithRag ==
    /\ pc = "rag_docs"
    /\ \E hist \in HistoryResults, llm \in LLMClient_chat(LlmAnswers) :
          LET a == answer_with_rag(relevant_docs, hist, llm)
          IN  /\ answer' = a.answer
              /\ error' = a.error
              /\ history_reads' = history_reads + a.history_reads
              /\ llm_calls' = llm_calls + a.llm_calls
              /\ txn' = a.txn
              /\ db_reply' = a.db_reply
              /\ outcome' = IF a.raised THEN "error" ELSE "answered"
    /\ pc' = "prompt"
    /\ UNCHANGED <<messages, dispatched, mode, user_input, sql_query, confirm_input, executed,
                   chat_history, handled, exec_calls, relevant_docs>>
    /\ UNCHANGED conn
    /\ UNCHANGED notS

\* limit=10, line 372
ChatHistoryLimit == 10

\* get_chat_history(limit), lines 117-127, on this session's rows: the last
\* limit of them, oldest first, as role and content.
session_history(limit) ==
    LET n == Len(chat_history)
    IN  SubSeq(chat_history, IF n > limit THEN n - limit + 1 ELSE 1, n)

\* handle_chat_mode, line 375
SystemMessage ==
    [role |-> "system",
     content |-> Chars("You are a helpful assistant for a database chat system. You can help users understand their data, answer questions, and provide guidance.")]

\* handle_chat_mode, lines 374-383: the system message, the history, the
\* current message.
chat_messages(hist, current) ==
    <<SystemMessage>> \o hist \o <<[role |-> "user", content |-> current]>>

\* handle_chat_mode, lines 369-395. The history read of line 372 is outside
\* the try block, so its exception reaches run's handler at line 502; the
\* answer is printed before the assistant's message is saved.
HandleChatMode ==
    /\ pc = "chat"
    /\ \E hist \in HistoryResults, llm \in LLMClient_chat(LlmAnswers), db \in InsertResults :
          LET h == execute_query(hist)
              s == save_chat_message(db, "assistant", llm.text)
          IN  /\ history_reads' = history_reads + 1
              /\ IF h.raised
                 THEN /\ outcome' = "error"
                      /\ error' = h.error
                      /\ db_reply' = hist
                      /\ txn' = h.txn
                      /\ UNCHANGED <<llm_calls, answer, chat_history, messages>>
                 ELSE /\ llm_calls' = llm_calls + 1
                      /\ messages' = chat_messages(session_history(ChatHistoryLimit),
                                                   user_input)
                      /\ IF llm.raised
                         THEN /\ outcome' = "error"
                              /\ error' = llm.text
                              /\ db_reply' = hist
                              /\ txn' = h.txn
                              /\ UNCHANGED <<answer, chat_history>>
                         ELSE /\ answer' = llm.text
                              /\ outcome' = "answered"
                              /\ chat_history' = s.rows
                              /\ error' = s.error
                              /\ db_reply' = db
                              /\ txn' = s.txn
    /\ pc' = "prompt"
    /\ UNCHANGED <<dispatched, mode, user_input, sql_query, confirm_input, executed,
                   handled, exec_calls, relevant_docs>>
    /\ UNCHANGED conn
    /\ UNCHANGED notS

Next ==
    \/ Initialize
    \/ Interrupt
    \/ SqlCommand
    \/ AskCommand
    \/ ChatCommand
    \/ AutoDetectSql
    \/ AutoDetectChat
    \/ Quit
    \/ GenerateSql
    \/ ConfirmAndExecute
    \/ SearchDocuments
    \/ AnswerWithRag
    \/ HandleChatMode

Spec == Init /\ [][Next]_vars

-----------------------------------------------------------------------------
(* DatabaseManager (chat.py): the chat history *)

\* SESSION_ID = str(uuid.uuid4()), line 42: this process's session.
SESSION_ID == "session-1"

\* The session ids in table chat_history: this process's and another one's.
SessionIds == {SESSION_ID, "session-2"}

\* The messages this session saves.
Messages == { [role |-> "user", content |-> "hello"],
              [role |-> "assistant", content |-> "Hi!"] }

\* The messages another session saves.
OtherMessages == { [role |-> "user", content |-> "elsewhere"] }

\* The limit arguments of get_chat_history: below, at and above the number
\* of rows the table can hold.
HistoryLimits == {1, 2, MaxMessages, MaxMessages + 1}

\* The INSERT of save_chat_message names no timestamp; the column's default
\* is the time of the insertion, which grows from one insertion to the next.
insertion_time == db_clock

\* rows in the order of ORDER BY timestamp DESC.
order_by_timestamp_desc(rows) ==
    [k \in 1..Cardinality(rows) |->
        CHOOSE r \in rows :
            Cardinality({o \in rows : o.timestamp > r.timestamp}) = k - 1]

\* list(reversed(results)), line 127
reversed(results) == [k \in 1..Len(results) |-> results[Len(results) + 1 - k]]

\* get_chat_history without the reversal of line 127.
get_chat_history_newest_first(limit) ==
    LET matching == {r \in chat_history_table : r.session_id = SESSION_ID}
        ordered  == order_by_timestamp_desc(matching)
        results  == SubSeq(ordered, 1, IF limit < Len(ordered) THEN limit ELSE Len(ordered))
    IN  [k \in 1..Len(results) |->
            [role |-> results[k].role, content |-> results[k].content,
             timestamp |-> results[k].timestamp]]

\* DatabaseManager.get_chat_history(limit), lines 117-127: SELECT role,
\* content, timestamp FROM chat_history WHERE session_id = SESSION_ID ORDER BY
\* timestamp DESC LIMIT limit, and the rows reversed.
get_chat_history(limit) ==
    LET matching == {r \in chat_history_table : r.session_id = SESSION_ID}
        ordered  == order_by_timestamp_desc(matching)
        results  == SubSeq(ordered, 1, IF limit < Len(ordered) THEN limit ELSE Len(ordered))
    IN  reversed([k \in 1..Len(results) |->
            [role |-> results[k].role, content |-> results[k].content,
             timestamp |-> results[k].timestamp]])

\* The INSERT of save_chat_message (lines 111-115) under session id sid.
insert_chat_message(sid, m) ==
    /\ Cardinality(chat_history_table) < MaxMessages
    /\ chat_history_table' = chat_history_table \cup
          {[session_id |-> sid, role |-> m.role, content |-> m.content,
            timestamp |-> insertion_time]}
    /\ db_clock' = db_clock + 1

InitH ==
    /\ IdleH
    /\ IdleV
    /\ IdleS
    /\ IdleD
    /\ IdleG
    /\ IdleC
    /\ IdleE

\* DatabaseManager.save_chat_message(role, content), lines 109-115.
SaveChatMessage ==
    /\ \E m \in Messages :
          /\ insert_chat_message(SESSION_ID, m)
          /\ saved' = Append(saved, m)
    /\ history' = <<>>
    /\ history_limit' = 0
    /\ UNCHANGED notH

\* Another process saves a message under its own SESSION_ID.
OtherSessionSaves ==
    /\ \E sid \in SessionIds \ {SESSION_ID}, m \in OtherMessages :
          insert_chat_message(sid, m)
    /\ UNCHANGED <<saved, history, history_limit>>
    /\ UNCHANGED notH

\* history = self.db.get_chat_history(limit=...), lines 288, 372 and 473.
GetChatHistory ==
    /\ \E limit \in HistoryLimits :
          /\ history' = get_chat_history(limit)
          /\ history_limit' = limit
    /\ UNCHANGED <<chat_history_table, db_clock, saved>>
    /\ UNCHANGED notH

NextH ==
    \/ SaveChatMessage
    \/ OtherSessionSaves
    \/ GetChatHistory

SpecH == InitH /\ [][NextH]_vars

-----------------------------------------------------------------------------
(* DatabaseManager (chat.py): the document search *)

\* The embedding vectors of the model: axis-parallel vectors, whose norms
\* and cosines are integers.
Vectors == { <<1, 0>>, <<0, 1>>, <<-1, 0>>, <<2, 0>> }

dot(u, v) == u[1] * v[1] + u[2] * v[2]

\* The Euclidean norm of an axis-parallel vector.
norm(u) == (IF u[1] < 0 THEN -u[1] ELSE u[1]) + (IF u[2] < 0 THEN -u[2] ELSE u[2])

\* embedding <=> %s::vector: pgvector's cosine distance.
cosine_distance(u, v) == 1 - (dot(u, v) \div (norm(u) * norm(v)))

\* The orders ORDER BY embedding <=> q can give the rows ids: every
\* arrangement with non-decreasing distance (rows at equal distance come in
\* any order).
RECURSIVE order_by_distance(_, _)
order_by_distance(ids, q) ==
    IF ids = {} THEN {<<>>}
    ELSE LET nearest == {i \in ids : \A j \in ids :
                            cosine_distance(documents[i], q) <= cosine_distance(documents[j], q)}
         IN  UNION {{<<i>> \o o : o \in order_by_distance(ids \ {i}, q)} : i \in nearest}

\* search_documents without the WHERE clause, a row without an embedding
\* scored as similarity 0.
search_documents_null_as_zero(q, k) ==
    LET dist(id) == IF documents[id] = NULL THEN 1 ELSE cosine_distance(documents[id], q)
        ids      == DOMAIN documents
        orders   == { o \in [1..Cardinality(ids) -> ids] :
                        /\ \A i, j \in 1..Cardinality(ids) : i # j => o[i] # o[j]
                        /\ \A i \in 1..Cardinality(ids) - 1 : dist(o[i]) <= dist(o[i + 1]) }
        first    == CHOOSE o \in orders : TRUE
    IN  { [n \in 1..(IF k < Len(first) THEN k ELSE Len(first)) |->
              [content |-> first[n], similarity |-> 1 - dist(first[n])]] }

\* DatabaseManager.search_documents(query, top_k), lines 136-151, with q the
\* embedding of query: SELECT content, metadata, 1 - (embedding <=> q) AS
\* similarity FROM documents WHERE embedding IS NOT NULL ORDER BY embedding
\* <=> q LIMIT top_k. The set of row lists the statement can return; a
\* row's content is the row's id here.
search_documents(q, k) ==
    LET ids == {id \in DOMAIN documents : documents[id] # NULL}
    IN  { [n \in 1..(IF k < Len(o) THEN k ELSE Len(o)) |->
              [content |-> o[n], similarity |-> 1 - cosine_distance(documents[o[n]], q)]] :
          o \in order_by_distance(ids, q) }

\* top_k: int = 3, line 136
DefaultTopK == 3

InitD ==
    /\ documents \in [1..MaxDocuments -> Vectors \cup {NULL}]
    /\ query_embedding = NULL
    /\ top_k = 0
    /\ search_results = <<>>
    /\ IdleV
    /\ IdleS
    /\ IdleH
    /\ IdleG
    /\ IdleC
    /\ IdleE

\* A call of search_documents: the question is embedded (lines 138-141) and
\* the SELECT is executed (lines 143-151).
Search ==
    /\ top_k = 0
    /\ \E q \in Vectors, k \in 1..DefaultTopK :
          /\ query_embedding' = q
          /\ top_k' = k
          /\ search_results' \in search_documents(q, k)
    /\ UNCHANGED documents
    /\ UNCHANGED notD

NextD == Search

SpecD == InitD /\ [][NextD]_vars

-----------------------------------------------------------------------------
(* ChatInterface.generate_sql_query (chat.py): the clean-up of the response *)

\* The parts LLM responses are made of.
ResponseParts ==
    { Fence, Chars("sql"), Chars("\nSELECT 1\n"), Chars("SELECT 1"), Chars(" "), Chars("\n") }

RECURSIVE ResponseConcats(_)
ResponseConcats(n) ==
    IF n = 0 THEN {<<>>}
    ELSE ResponseConcats(n - 1)
            \cup {p \o r : p \in ResponseParts, r \in ResponseConcats(n - 1)}

\* What LLMClient.chat returns at line 262.
GeneratedResponses == ResponseConcats(MaxParts) \cup LlmResponses

InitG ==
    /\ llm_output \in GeneratedResponses
    /\ sanitized = <<>>
    /\ sanitize_pc = "response"
    /\ IdleV
    /\ IdleS
    /\ IdleH
    /\ IdleD
    /\ IdleC
    /\ IdleE

\* generate_sql_query, lines 264-271
Sanitize ==
    /\ sanitize_pc = "response"
    /\ sanitized' = cleanup_response(llm_output)
    /\ sanitize_pc' = "returned"
    /\ UNCHANGED llm_output
    /\ UNCHANGED notG

NextG == Sanitize

SpecG == InitG /\ [][NextG]_vars

-----------------------------------------------------------------------------
(* ConfigLoader (tools/config_loader.py) *)

\* The passwords the keyring can hold and the values the environment can hold.
KeyringValues == {"keyring-user"}

EnvValues == {"env-user"}

\* The default arguments of the callers.
Defaults == {None, "cgiuser", "postgres"}

\* if value: (lines 65 and 74)
truthy(value) == value \notin {None, ""}

\* ConfigLoader.get(key, default, env_var), lines 42-83: the value returned
\* and the _cache the call leaves.
get(key, default, env_var) ==
    IF cache[key] # Absent
    THEN [value |-> cache[key], cache |-> cache]
    ELSE LET password == IF use_keyring THEN keyring_store[str_lower(key)] ELSE None
             env_key  == IF env_var # <<>> THEN env_var ELSE str_upper(key)
             value    == environ[env_key]
         IN  IF truthy(password)
             THEN [value |-> password, cache |-> [cache EXCEPT ![key] = password]]
             ELSE IF truthy(value)
             THEN [value |-> value, cache |-> [cache EXCEPT ![key] = value]]
             ELSE IF default # None
             THEN [value |-> default, cache |-> [cache EXCEPT ![key] = default]]
             ELSE [value |-> None, cache |-> cache]

\* ConfigLoader.require(key, env_var), lines 85-105
require(key, env_var) ==
    LET got == get(key, None, env_var)
    IN  IF got.value = None
        THEN [value |-> "ValueError", cache |-> got.cache]
        ELSE got

\* A loader as ConfigLoader(use_keyring=...) constructs it, over any keyring
\* and any environment.
InitC ==
    /\ keyring_store \in [KeyringNames -> KeyringValues \cup {None}]
    /\ environ \in [EnvNames -> EnvValues \cup {None}]
    /\ use_keyring \in BOOLEAN
    /\ cache = [k \in Keys |-> Absent]
    /\ config_call = NoCall
    /\ config_returned = None
    /\ IdleV
    /\ IdleS
    /\ IdleH
    /\ IdleD
    /\ IdleG
    /\ IdleE

\* A call of get.
Get ==
    /\ \E key \in Keys, default \in Defaults, env_var \in EnvVars :
          LET got == get(key, default, env_var)
          IN  /\ config_call' = [op |-> "get", key |-> key, default |-> default,
                                  env_var |-> env_var]
              /\ config_returned' = got.value
              /\ cache' = got.cache
    /\ UNCHANGED <<keyring_store, environ, use_keyring>>
    /\ UNCHANGED notC

\* A call of require.
Require ==
    /\ \E key \in Keys, env_var \in EnvVars :
          LET got == require(key, env_var)
          IN  /\ config_call' = [op |-> "require", key |-> key, default |-> None,
                                  env_var |-> env_var]
              /\ config_returned' = got.value
              /\ cache' = got.cache
    /\ UNCHANGED <<keyring_store, environ, use_keyring>>
    /\ UNCHANGED notC

NextC ==
    \/ Get
    \/ Require

SpecC == InitC /\ [][NextC]_vars

-----------------------------------------------------------------------------
(* DatabaseManager.embed_documents (chat.py), run by several processes on   *)
(* one table documents. Each process has its own connection; every          *)
(* statement goes through execute_query, which commits an UPDATE before it  *)
(* returns (line 76), so a statement is one step and its effect is visible  *)
(* to the other process's next statement.                                   *)

\* self.embedding_model.encode(doc['content']).tolist(), line 165: the vector
\* the model computes for a row's content. The content of row id is id here.
encode(content) == <<content, 1>>

InitE ==
    /\ embedding \in {[id \in 1..MaxBacklog |-> IF id \in done THEN encode(id) ELSE NULL] :
                        done \in SUBSET (1..MaxBacklog)}
    /\ embed_pc = [w \in Workers |-> "start"]
    /\ docs_to_embed = [w \in Workers |-> {}]
    /\ embedding_writes = [id \in 1..MaxBacklog |-> <<>>]
    /\ IdleV
    /\ IdleS
    /\ IdleH
    /\ IdleD
    /\ IdleG
    /\ IdleC

\* Lines 155-160: SELECT id, content FROM documents WHERE embedding IS NULL;
\* with no row the method returns.
SelectMissing ==
    \E w \in Workers :
        /\ embed_pc[w] = "start"
        /\ LET rows == {id \in DOMAIN embedding : embedding[id] = NULL}
           IN  /\ docs_to_embed' = [docs_to_embed EXCEPT ![w] = rows]
               /\ embed_pc' = [embed_pc EXCEPT ![w] = IF rows = {} THEN "returned" ELSE "loop"]
        /\ UNCHANGED <<embedding, embedding_writes>>
        /\ UNCHANGED notE

\* One turn of the loop of lines 164-169: the embedding of the row's content
\* is computed and UPDATE documents SET embedding = %s WHERE id = %s is
\* executed and committed; after the last row line 172 commits and the method
\* returns. The SELECT has no ORDER BY, so the rows come in any order.
UpdateEmbedding ==
    \E w \in Workers :
        /\ embed_pc[w] = "loop"
        /\ \E doc \in docs_to_embed[w] :
              /\ embedding' = [embedding EXCEPT ![doc] = encode(doc)]
              /\ embedding_writes' = [embedding_writes EXCEPT ![doc] = Append(@, w)]
              /\ docs_to_embed' = [docs_to_embed EXCEPT ![w] = @ \ {doc}]
              /\ embed_pc' = [embed_pc EXCEPT ![w] =
                                IF docs_to_embed[w] = {doc} THEN "returned" ELSE "loop"]
        /\ UNCHANGED notE

\* Lines 78-80: a statement fails; execute_query rolls back and raises, and
\* the exception leaves embed_documents.
StatementFails ==
    \E w \in Workers :
        /\ embed_pc[w] \in {"start", "loop"}
        /\ embed_pc' = [embed_pc EXCEPT ![w] = "raised"]
        /\ docs_to_embed' = [docs_to_embed EXCEPT ![w] = {}]
        /\ UNCHANGED <<embedding, embedding_writes>>
        /\ UNCHANGED notE

NextE ==
    \/ SelectMissing
    \/ UpdateEmbedding
    \/ StatementFails

SpecE == InitE /\ [][NextE]_vars

-----------------------------------------------------------------------------
(* The vocabulary of the claims about the validator, stated without the    *)
(* validator's own steps.                                                   *)

\* s with every maximal run of whitespace replaced by one space.
CollapseWhitespace(s) ==
    LET kept == SelectSeq([i \in 1..Len(s) |-> i],
                          LAMBDA i : ~ (/\ s[i] \in Whitespace
                                        /\ i > 1
                                        /\ s[i - 1] \in Whitespace))
    IN  [k \in 1..Len(kept) |-> IF s[kept[k]] \in Whitespace THEN " " ELSE s[kept[k]]]

\* The cleaned form: whitespace-collapsed, uppercased, spaces and semicolons
\* stripped from both ends.
CleanedForm(s) == str_strip(str_upper(CollapseWhitespace(s)), {" ", ";"})

ForbiddenSet ==
    { Chars("INSERT"), Chars("UPDATE"), Chars("DELETE"), Chars("DROP"),
      Chars("CREATE"), Chars("ALTER"), Chars("TRUNCATE"), Chars("REPLACE"),
      Chars("MERGE"), Chars("GRANT"), Chars("REVOKE"), Chars("EXECUTE"),
      Chars("EXEC"), Chars("CALL"), Chars("DO") }

HasForbidden(s) ==
    LET cleaned == CleanedForm(s)
    IN  \E k \in ForbiddenSet : str_in(k, cleaned)

StartsReadOnly(s) ==
    LET cleaned == CleanedForm(s)
    IN  \/ str_startswith(cleaned, SelectPrefix)
        \/ str_startswith(cleaned, WithPrefix)

\* More than one ';', or exactly one that is not the last character of the
\* trimmed string.
SemicolonMisuse(s) ==
    LET trimmed == str_strip(s, Whitespace)
        n       == Cardinality({i \in 1..Len(s) : s[i] = ";"})
    IN  \/ n > 1
        \/ n = 1 /\ trimmed[Len(trimmed)] # ";"

IsAscii(s) == \A i \in 1..Len(s) : s[i] # Kelvin

Called == result # NoResult

-----------------------------------------------------------------------------
(* Claims C2-C10: the validator (specification SpecV) *)

\* C2: a string whose cleaned form contains a forbidden keyword as a substring
\* (not only as a whole word) is rejected with the forbidden-keyword reason.
C2_ForbiddenKeywordRejected ==
    (Called /\ HasForbidden(query)) => result.kind = "ForbiddenKeyword"

\* C2 witness: "SELECTdox", where DO occurs only inside a word, was rejected
\* for a forbidden keyword.
C2_Witness ==
    /\ query = Chars("SELECTdox")
    /\ result.kind = "ForbiddenKeyword"

\* C3: a string whose cleaned form has no forbidden keyword and does not start
\* with SELECT or WITH is rejected with the prefix reason; so are the empty
\* string and strings of only spaces and semicolons.
C3_PrefixRejected ==
    /\ (Called /\ ~ HasForbidden(query) /\ ~ StartsReadOnly(query))
          => result = NotReadOnlyPrefix
    /\ (Called /\ \A i \in 1..Len(query) : query[i] \in {" ", ";"})
          => result = NotReadOnlyPrefix

\* C3 witness: " ; " (spaces and a semicolon only) was rejected for its prefix.
C3_Witness ==
    /\ query = Chars(" ; ")
    /\ result = NotReadOnlyPrefix

\* C4 as claimed: every string with more than one ';', or with one ';' that is
\* not its last character after trimming, is rejected as MultipleStatements.
C4_Original ==
    (Called /\ SemicolonMisuse(query)) => result = MultipleStatements

\* C4 as amended: such a string is never Allowed, and it is rejected as
\* MultipleStatements exactly when the two earlier checks pass (no forbidden
\* keyword in the cleaned form, which starts with SELECT or WITH); otherwise
\* the keyword or the prefix reason is the one reported.
C4_SemicolonMisuseRejected ==
    (Called /\ SemicolonMisuse(query)) =>
        /\ result # Allowed
        /\ result = MultipleStatements
              <=> (~ HasForbidden(query) /\ StartsReadOnly(query))

\* C4 witness: "SELECT;x", one inline semicolon, was rejected as MultipleStatements.
C4_Witness ==
    /\ query = Chars("SELECT;x")
    /\ result = MultipleStatements

\* C5: the validator returns Allowed exactly when the cleaned form has no
\* forbidden keyword, the cleaned form starts with SELECT or WITH, and the raw
\* string has no ';' or one ';' ending the trimmed string; the CTE query of
\* the tests is Allowed.
C5_AllowedExactly ==
    /\ Called =>
         (result = Allowed
            <=> /\ ~ HasForbidden(query)
                /\ StartsReadOnly(query)
                /\ ~ SemicolonMisuse(query))
    /\ (Called /\ query = Chars("WITH cte AS (SELECT * FROM users) SELECT * FROM cte"))
          => result = Allowed

\* C5 witness: the CTE query was validated and Allowed.
C5_Witness ==
    /\ query = Chars("WITH cte AS (SELECT * FROM users) SELECT * FROM cte")
    /\ result = Allowed

C7_Original ==
    (Called /\ rel = "case") => result = base_result

\* C7 as amended: the outcome of s and of s uppercased are the same for every
\* s, and the outcome of the lower-case and mixed-case variants is that of s
\* for every s of ASCII characters.
C7_CaseInsensitiveAscii ==
    (Called /\ rel = "case" /\ (IsAscii(base) \/ query = str_upper(base)))
        => result = base_result

\* C7 witness: "select * from users" was Allowed after "SELECT * FROM users" was.
C7_Witness ==
    /\ rel = "case"
    /\ base = Chars("SELECT * FROM users")
    /\ query = Chars("select * from users")
    /\ base_result = Allowed
    /\ result = Allowed

\* C8: leading or trailing whitespace added, or a whitespace run between two
\* tokens replaced by another non-empty run, leaves the outcome as it was.
C8_WhitespaceTolerant ==
    (Called /\ rel = "ws") => result = base_result

\* C8 witness: a query with a trailing semicolon and a changed whitespace run
\* was Allowed as before.
C8_Witness ==
    /\ rel = "ws"
    /\ base = Chars("SELECT * FROM users;")
    /\ Len(query) > Len(base) + 1
    /\ result = Allowed

\* C9: an Allowed string without ';' stays Allowed with one ';' (and optional
\* whitespace) appended, and is rejected with two or more ';' appended.
C9_TrailingSemicolon ==
    (Called /\ str_count(base, ";") = 0 /\ base_result = Allowed) =>
        /\ rel = "semi1" => result = Allowed
        /\ rel = "semi2" => result.kind \in {"ForbiddenKeyword", "NotReadOnlyPrefix",
                                             "MultipleStatements"}

\* C9 witness: an Allowed query followed by ";;" was rejected.
C9_Witness ==
    /\ rel = "semi2"
    /\ base = Chars("SELECT * FROM users")
    /\ base_result = Allowed
    /\ result = MultipleStatements

\* C10 as claimed: "'; DROP TABLE users; --" is rejected by the prefix check.
C10_Original ==
    (Called /\ query = Chars("'; DROP TABLE users; --")) => result = NotReadOnlyPrefix

\* C10 as amended: "'; DROP TABLE users; --" is rejected, and the reason is the
\* forbidden keyword DROP, which is scanned for before the prefix is checked.
C10_InjectionRejectedForKeyword ==
    (Called /\ query = Chars("'; DROP TABLE users; --"))
        => result = ForbiddenKeyword(Chars("DROP"))

\* C10 witness: the injection string was validated and rejected.
C10_Witness ==
    /\ query = Chars("'; DROP TABLE users; --")
    /\ rel = "none"
    /\ result.kind = "ForbiddenKeyword"

-----------------------------------------------------------------------------
(* Claim C1: the SQL path (specification Spec) *)

\* C1: every generated string that handle_sql_mode passes to execute_query is
\* one the read-only validator has returned Allowed for.
C1_ExecutedOnlyIfAllowed ==
    \A i \in 1..Len(executed) : validate_read_only_query(executed[i]) = Allowed

-----------------------------------------------------------------------------
(* C11 *)

\* C11: DatabaseManager of chat.py provides validate_read_only_query, and on
\* every query it returns normally or raises exactly as the standalone
\* validate_read_only_query of the test files does.
C11_ApplicationValidatorIsTestedValidator ==
    (db_result # NoResult /\ result # NoResult) => db_result = result

-----------------------------------------------------------------------------
(* C12 - C15, C17: ChatInterface.run *)

\* C12: a generated query the validator rejects ends the SQL path before the
\* confirmation (outcome SecurityRejected) and is never executed, and one
\* question makes at most one LLM call and at most one execution.
C12_RejectedSqlEndsThePath ==
    /\ llm_calls <= 1
    /\ exec_calls <= 1
    /\ pc = "confirm" => validate_read_only_query(sql_query) = Allowed
    /\ (mode = "sql" /\ exec_calls = 1) => validate_read_only_query(sql_query) = Allowed

\* C13: at the confirmation, the generated query is executed only if the
\* input is "y" or "Y"; on any other input the outcome is Cancelled, no
\* execute_query call is made and the database is left as it was.
C13_ExecutedOnlyOnLiteralY ==
    [][pc = "confirm" =>
          IF confirm_input' \in {<<"y">>, <<"Y">>}
          THEN /\ executed' = Append(executed, sql_query)
               /\ exec_calls' = exec_calls + 1
          ELSE /\ outcome' = "cancelled"
               /\ UNCHANGED <<executed, exec_calls, txn, db_reply, chat_history>>]_vars

C13_Witness ==
    /\ pc = "prompt"
    /\ mode = "sql"
    /\ confirm_input = <<" ", "y">>
    /\ outcome = "cancelled"
    /\ exec_calls = 0

C15_SaveFailureDoesNotAbort ==
    dispatched # "none" => mode = dispatched

\* C17: when search_documents returned no documents, answer_with_rag returns
\* the fixed response as a normal answer, without a call of the LLM and
\* without a history read.
C17_EmptySearchShortCircuits ==
    [][(pc = "rag_docs" /\ relevant_docs = <<>>) =>
          /\ answer' = Chars("I couldn't find any relevant information in the knowledge base.")
          /\ outcome' = "answered"
          /\ error' = <<>>
          /\ llm_calls' = llm_calls
          /\ history_reads' = history_reads
          /\ pc' = "prompt"]_vars

C17_Witness ==
    /\ pc = "prompt"
    /\ mode = "rag"
    /\ relevant_docs = <<>>
    /\ db_reply = "empty"
    /\ outcome = "answered"
    /\ llm_calls = 0

-----------------------------------------------------------------------------
(* C16 *)

\* The last n elements of sequence q (all of q when it has fewer).
LastN(q, n) == SubSeq(q, IF Len(q) > n THEN Len(q) - n + 1 ELSE 1, Len(q))

\* C16: get_chat_history(limit) returns exactly the last min(limit, n) of the
\* n messages saved under this session's id, oldest first, and no message of
\* another session.
C16_HistoryIsLastSavedInOrder ==
    history_limit # 0 =>
        /\ Len(history) = IF history_limit < Len(saved) THEN history_limit ELSE Len(saved)
        /\ [k \in 1..Len(history) |-> [role |-> history[k].role, content |-> history[k].content]]
              = LastN(saved, history_limit)
        /\ \A k \in 1..Len(history) :
              [role |-> history[k].role, content |-> history[k].content] \notin OtherMessages

C16_Witness ==
    /\ history_limit = 2
    /\ Len(saved) = 3
    /\ saved[2] # saved[3]
    /\ Len(history) = 2
    /\ Cardinality(chat_history_table) = MaxMessages

-----------------------------------------------------------------------------
(* C18 *)

\* The similarity of document id to the question: 1 - cosine distance.
Similarity(id) == 1 - cosine_distance(documents[id], query_embedding)

\* The documents in the result of the last search.
Returned == {search_results[n].content : n \in 1..Len(search_results)}

\* C18: search_documents returns at most top_k documents, each with a
\* non-null embedding and its similarity to the question, in descending
\* similarity, and no document with an embedding that is left out is
\* strictly more similar than a returned one.
C18_TopKMostSimilar ==
    top_k # 0 =>
        /\ Len(search_results) <= top_k
        /\ Cardinality(Returned) = Len(search_results)
        /\ \A n \in 1..Len(search_results) :
              /\ documents[search_results[n].content] # NULL
              /\ search_results[n].similarity = Similarity(search_results[n].content)
        /\ \A n \in 1..Len(search_results) - 1 :
              search_results[n].similarity >= search_results[n + 1].similarity
        /\ \A out \in DOMAIN documents \ Returned :
              documents[out] # NULL =>
                  \A in \in Returned : Similarity(out) <= Similarity(in)

C18_Witness ==
    /\ top_k = 2
    /\ Len(search_results) = 2
    /\ \E id \in DOMAIN documents : documents[id] = NULL
    /\ search_results[1].similarity > search_results[2].similarity
    /\ \E out \in DOMAIN documents \ Returned : documents[out] # NULL

-----------------------------------------------------------------------------
(* C19 *)

\* s without its leading and trailing whitespace.
Trimmed(s) ==
    LET inner == {i \in 1..Len(s) : s[i] \notin {" ", "\t", "\n"}}
    IN  IF inner = {} THEN <<>>
        ELSE SubSeq(s, CHOOSE i \in inner : \A j \in inner : i <= j,
                       CHOOSE i \in inner : \A j \in inner : i >= j)

\* s begins with three backticks.
BeginsWithFence(s) ==
    /\ Len(s) >= 3
    /\ \A i \in 1..3 : s[i] = Backtick

\* s without its first line and its last line: what lies strictly between
\* the first and the last line break, nothing if there are fewer than two.
WithoutFirstAndLastLine(s) ==
    LET breaks == {i \in 1..Len(s) : s[i] = "\n"}
    IN  IF breaks = {} THEN <<>>
        ELSE SubSeq(s, (CHOOSE i \in breaks : \A j \in breaks : i <= j) + 1,
                       (CHOOSE i \in breaks : \A j \in breaks : i >= j) - 1)

\* C19: generate_sql_query trims the LLM's text; a text that then begins
\* with a fence loses exactly its first and its last line and is trimmed
\* again (a one-line fenced text becomes the empty string); any other text is
\* returned trimmed and otherwise unchanged.
C19_SanitizedResponse ==
    sanitize_pc = "returned" =>
        LET text == Trimmed(llm_output)
        IN  /\ BeginsWithFence(text) => sanitized = Trimmed(WithoutFirstAndLastLine(text))
            /\ (BeginsWithFence(text) /\ \A i \in 1..Len(text) : text[i] # "\n")
                  => sanitized = <<>>
            /\ ~ BeginsWithFence(text) => sanitized = text

C19_Witness ==
    /\ sanitize_pc = "returned"
    /\ llm_output = Fence \o Chars("sql") \o Chars("\nSELECT 1\n") \o Fence
    /\ sanitized = Chars("SELECT 1")

-----------------------------------------------------------------------------
(* C20 *)

\* What the keyring holds for key, None if nothing or if the keyring is not used.
InKeyring(key) == IF use_keyring THEN keyring_store[str_lower(key)] ELSE None

\* What the environment holds for key under env_var, or under the key's
\* upper-case name when no env_var is given.
InEnvironment(key, env_var) ==
    environ[IF env_var = <<>> THEN str_upper(key) ELSE env_var]

\* The fallback chain: keyring, then environment, then default, then None.
FallbackChain(key, default, env_var) ==
    IF InKeyring(key) # None THEN InKeyring(key)
    ELSE IF InEnvironment(key, env_var) # None THEN InEnvironment(key, env_var)
    ELSE default

\* C20: every call of get returns what the fallback chain gives for its
\* arguments, and require raises ValueError exactly when neither the keyring
\* nor the environment holds a value for the key.
C20_FallbackChainOnEveryCall ==
    /\ config_call.op = "get" =>
          config_returned = FallbackChain(config_call.key, config_call.default,
                                          config_call.env_var)
    /\ config_call.op = "require" =>
          /\ config_returned = "ValueError"
                <=> /\ InKeyring(config_call.key) = None
                    /\ InEnvironment(config_call.key, config_call.env_var) = None
          /\ config_returned # "ValueError" =>
                config_returned = FallbackChain(config_call.key, None, config_call.env_var)

-----------------------------------------------------------------------------
(* Claim C21: the order of the validator's checks (specification SpecV) *)

\* The forbidden keywords in the order the claim lists them.
KeywordOrder ==
    << Chars("INSERT"), Chars("UPDATE"), Chars("DELETE"), Chars("DROP"),
       Chars("CREATE"), Chars("ALTER"), Chars("TRUNCATE"), Chars("REPLACE"),
       Chars("MERGE"), Chars("GRANT"), Chars("REVOKE"), Chars("EXECUTE"),
       Chars("EXEC"), Chars("CALL"), Chars("DO") >>

\* C21: a query that violates several checks is reported for the first one in
\* the order forbidden keyword, read-only prefix, semicolons; among several
\* forbidden keywords the one reported is the first of the list INSERT ... DO
\* that occurs in the cleaned form, so "DROP TABLE users" reports DROP and
\* "EXECUTE x" reports EXECUTE, never EXEC.
C21_FirstViolationReported ==
    Called =>
        LET cleaned == CleanedForm(query)
            present == {i \in 1..Len(KeywordOrder) : str_in(KeywordOrder[i], cleaned)}
            prefix  == \/ str_startswith(cleaned, SelectPrefix)
                       \/ str_startswith(cleaned, WithPrefix)
        IN  /\ present # {} =>
                  /\ result.kind = "ForbiddenKeyword"
                  /\ \E i \in present :
                        /\ result.keyword = KeywordOrder[i]
                        /\ \A j \in present : i <= j
            /\ (present = {} /\ ~ prefix) => result = NotReadOnlyPrefix
            /\ (present = {} /\ prefix /\ SemicolonMisuse(query))
                  => result = MultipleStatements

\* C21 witness: "EXECUTE sp_malicious" holds EXECUTE and EXEC and does not
\* start with SELECT or WITH; it was rejected for EXECUTE.
C21_Witness ==
    /\ query = Chars("EXECUTE sp_malicious")
    /\ result = ForbiddenKeyword(Chars("EXECUTE"))

-----------------------------------------------------------------------------
(* Claim C22: concurrent backfills (specification SpecE) *)

\* C22: two backfills that run concurrently on one documents table are
\* serialized: no row's embedding is computed and written by both, and a row
\* that already has an embedding is never overwritten, so every row's
\* embedding is written at most once.
C22_BackfillSerialized ==
    \A id \in DOMAIN embedding_writes : Len(embedding_writes[id]) <= 1

-----------------------------------------------------------------------------
(* Claim C23: the message list of chat mode (specification Spec) *)

\* C23: the list chat mode sends to the LLM is one system message, then at
\* most 10 messages of history, then the current user input as the last
\* message, and the current user input appears exactly once in it.
C23_CurrentInputExactlyOnce ==
    (mode = "chat" /\ messages # <<>>) =>
        /\ messages[1].role = "system"
        /\ \A i \in 2..Len(messages) : messages[i].role # "system"
        /\ Len(messages) <= ChatHistoryLimit + 2
        /\ messages[Len(messages)] = [role |-> "user", content |-> user_input]
        /\ Cardinality({i \in 1..Len(messages) :
                          messages[i] = [role |-> "user", content |-> user_input]}) = 1

-----------------------------------------------------------------------------
(* Claim C24: run closes the connection (specification Spec) *)

\* C24: whenever ChatInterface.run has returned, the database connection that
\* initialize opened has been closed: after /quit and /exit, after a keyboard
\* interrupt or the end of input, and after initialize failed with the
\* connection already made.
C24_ReturnedMeansClosed ==
    pc = "returned" => conn # "open"

=============================================================================
